---- MODULE Spec2Model ----
(***************************************************************************)
(* Model of the Redfin property scraper (src/src/main.js): the fallback    *)
(* orchestrator of main, the concurrency limiter, the retry wrapper and    *)
(* the method fetchers.                                                    *)
(*                                                                         *)
(* JavaScript runs every piece of code between two awaits to completion,   *)
(* so one action of this model is one such piece: an I/O completion (a     *)
(* response, a timer, a sink push) together with every synchronous         *)
(* continuation and promise callback it triggers.                          *)
(***************************************************************************)
EXTENDS Integers, Sequences, FiniteSets, Bags, TLC

\* ------------------------------------------------------------------ bounds
MaxWanted == 2
MaxPagesBound == 2
MaxRetriesBound == 1
\* largest maxRetries given to requestWithRetry when it is studied on its own
MaxWrapperRetries == 2
\* number of fetchViaPlaywright invocations followed when it is studied on its own
MaxBrowserCalls == 2
\* tasks submitted to a limiter, and largest limit, when createLimiter is
\* studied on its own
MaxPoolTasks == 4
MaxPoolSlots == 2

\* ------------------------------------------------------- program constants
BLOCK_STATUS == {403, 429, 503}
MaxLimit == 10
MinLimit == 1

NoVal == ""
NaN == -1

Min(a, b) == IF a <= b THEN a ELSE b
Max(a, b) == IF a >= b THEN a ELSE b

\* ------------------------------------------------------------ input samples
\* maxConcurrency as given in the input, before clamping
ConcurrencySamples == {0, 2, 11}
\* what the start URL resolves to: no startUrl at all, a URL without a region
\* segment (and no explicit regionId), a URL with a resolvable region
TargetSamples == {"none", "unresolved", "resolved"}

Listing(p, u) == [propertyId |-> p, url |-> u, mlsNumber |-> NoVal]
\* a listing without propertyId that carries an MLS number
ListingMls(m, u) == [propertyId |-> NoVal, url |-> u, mlsNumber |-> m]
\* three distinct listings
HomesDistinct == <<Listing("p1", "u1"), Listing("p2", "u2"), Listing("p3", "u3")>>
\* a repeated propertyId, and a listing with neither propertyId nor url
HomesDup == <<Listing("p1", "u1"), Listing("p1", "u4"), Listing(NoVal, NoVal)>>
\* an HTML results page: one listing the API also returns, one identified by URL
HomesHtml == <<Listing("p1", "u1"), Listing(NoVal, "u5")>>
\* a browser-rendered results page: a listing the API also returns, and a
\* second entry of the same home under another URL, known by its MLS number
HomesBrowser == <<Listing("p2", "u2"), ListingMls("p2", "u6")>>

\* responses of the search API: status and parsed body
ApiBody(has, hs) == [hasHomes |-> has, homes |-> hs]
ApiResponses ==
    {[status |-> 200, body |-> ApiBody(TRUE, HomesDistinct)],
     [status |-> 200, body |-> ApiBody(TRUE, HomesDup)],
     [status |-> 200, body |-> ApiBody(TRUE, <<>>)],
     [status |-> 200, body |-> ApiBody(FALSE, <<>>)],
     [status |-> 403, body |-> ApiBody(FALSE, <<>>)],
     [status |-> 429, body |-> ApiBody(FALSE, <<>>)],
     [status |-> 500, body |-> ApiBody(FALSE, <<>>)]}

\* HTML bodies are character sequences; listings is what the list-page
\* parser finds in the body
TextPlain == <<"<", "l", "i", ">">>
TextCaptcha == <<"x", "C", "a", "p", "T", "c", "H", "a", "!">>
\* bodies answered to fetchSearchHtml when it is followed call by call
TextLower == <<"c", "a", "p", "t", "c", "h", "a">>
TextUpper == <<"<", "C", "A", "P", "T", "C", "H", "A">>
TextNearMiss == <<"c", "a", "p", "t", "c", "h", " ", "a">>
TextAnchor == <<"<", "a", ">">>
FetchBodies == {TextPlain, TextAnchor, TextNearMiss, TextCaptcha, TextLower, TextUpper}
FetchResponses == [status : {200, 403, 500}, body : FetchBodies]

HtmlResponses ==
    {[status |-> 200, body |-> TextPlain, listings |-> HomesHtml],
     [status |-> 200, body |-> TextPlain, listings |-> <<>>],
     [status |-> 200, body |-> TextCaptcha, listings |-> HomesHtml],
     [status |-> 503, body |-> TextPlain, listings |-> <<>>],
     [status |-> 500, body |-> TextPlain, listings |-> <<>>]}

\* ------------------------------------------------------------------- state
VARIABLES
    \* the run input (main.js 592-614), fixed after Init
    resultsWanted, maxPages, maxConcurrency, maxRetries, collectDetails,
    preferJson, useHtmlFallback, usePlaywright, target,
    \* position of main and its loop variables
    pc, page, attempt, listings, item, apiSucceeded,
    \* shared state of the run (main.js 624-626)
    seen, saved, stats,
    \* history: the identifiers claimed for processing, with multiplicity
    claimed,
    \* history: the latest search response when it was an empty results
    \* array, a body without the results array, or the blocking response a
    \* page fetch ended with: [method, page, kind]; NoResp otherwise
    lastResp,
    \* the wall clock has passed the documented run budget
    overBudget,
    \* the limiter (main.js 77-78) and the tasks submitted to it
    active, queue, tasks,
    \* the dataset sink, the persisted summary, the exit status
    sink, summary, exitStatus,
    \* history: search pages requested, as <<method, page>>
    pageReqs,
    \* fault model: a sink push has rejected (at most one push of a run does)
    pushFailed,
    \* one call of fetchSearchHtml followed attempt by attempt:
    \* [caller, state, attempt, last, handed]; last is the answer to the latest
    \* attempt and whether the attempt returned, handed the documents passed to
    \* parseHtmlListPage and parseHtmlDetail so far, as
    \* <<extractor, origin, text>> with origin "response" for the body of an
    \* HTTP response and "rendered" for the document read from the browser
    fetch,
    \* the local variable detail of the listings whose fetchDetailPage call
    \* has returned and whose push has not settled yet ("parsed", or "empty"
    \* for the {} of a failed fetch), and the attempts used so far by the
    \* fetchDetailPage calls in progress; keyed by task, 0 for the listing of
    \* an HTML or browser loop. Followed only where detail fetches are
    \* followed attempt by attempt
    detail, detailAttempt,
    \* one call of buildProperty on one field of its two partial records:
    \* [field, listing, detail, out, built]; listing and detail are the values
    \* of the field in the summary and in the detail, out the value of the
    \* field in the record returned. Used only where buildProperty is studied
    \* on its own
    merge,
    \* one call of deriveRegionMeta: [url, regionId, regionType, out, called];
    \* url is the start URL as [given, parses, pathname], regionId and
    \* regionType the explicit inputs, out the value returned. Used only
    \* where deriveRegionMeta is studied on its own
    derive,
    \* one call of requestWithRetry: [maxRetries, attempt, state, calls, waits,
    \* lastError, out]; calls is the outcome of every invocation of fn so far,
    \* waits the number of backoff delays started, out what the call returned
    \* or threw. Used only where requestWithRetry is studied on its own
    retry,
    \* the browser sessions of fetchViaPlaywright: [call, proxy, step, browser,
    \* context, page, closing, open, closed, rejected, out]. call numbers the
    \* invocations; browser, context and page are the locals of the current
    \* one (0 for undefined, else the invocation that opened the handle); open
    \* is the set of <<kind, invocation>> still open; closed lists the close()
    \* calls of the current invocation and rejected those that rejected. Used
    \* only where fetchViaPlaywright is studied on its own
    session,
    \* one limiter made by createLimiter: [maxConcurrency, active, queue,
    \* running, tasks]. queue holds the entries {task, resolve, reject} as
    \* [task, promise], running the entries whose task has been started, and
    \* tasks[t] the state of the t-th submitted task and of the promise
    \* returned for it. Used only where createLimiter is studied on its own
    pool

runInputs == <<resultsWanted, maxPages, maxConcurrency, maxRetries, collectDetails,
               preferJson, useHtmlFallback, usePlaywright, target>>
\* what no step of a run changes
inputVars == <<runInputs, merge, derive, retry, session, pool>>
ctlVars == <<pc, page, attempt, pageReqs, summary>>
loopVars == <<listings, item>>
dedupVars == <<seen, claimed>>
sharedVars == <<dedupVars, saved, stats>>
histVars == <<lastResp>>
clockVars == <<overBudget>>
fetchVars == <<fetch, detail, detailAttempt>>
limiterVars == <<active, queue, tasks>>
outVars == <<sink, exitStatus>>
faultVars == <<pushFailed>>
vars == <<inputVars, ctlVars, loopVars, apiSucceeded, sharedVars, limiterVars, outVars,
          faultVars, histVars, clockVars, fetchVars>>

\* ------------------------------------------------------------ pure helpers
\* main.js 623: Math.max(1, Math.min(10, maxConcurrency))
Limit == Max(MinLimit, Min(MaxLimit, maxConcurrency))

\* main.js 663, 717, 752: listing.propertyId || listing.url
ListingId(l) == IF l.propertyId # NoVal THEN l.propertyId ELSE l.url

\* main.js 382-437: the canonical record of a listing l that carries a
\* propertyId, a url and an mlsNumber (each may be missing) and of a detail d, "parsed"
\* or "empty" ({}); parseHtmlDetail (346-380) gives no id and no url, and a
\* description that the listing never has
buildProperty(l, d, source) ==
    LET propertyId == IF l.propertyId # NoVal THEN l.propertyId ELSE l.mlsNumber
        url == IF l.url # NoVal THEN l.url
               ELSE IF propertyId # NoVal THEN "home/" \o propertyId ELSE NoVal
    IN [propertyId |-> IF propertyId # NoVal THEN propertyId ELSE url,
        url |-> url,
        mlsNumber |-> l.mlsNumber,
        description |-> IF d = "parsed" THEN "description" ELSE NoVal,
        source |-> source]

\* an add that puts the new method first
AddMethodFirst(ms, m) == IF \E i \in DOMAIN ms : ms[i] = m THEN ms ELSE <<m>> \o ms

\* Set.add on the insertion-ordered methodsUsed set
AddMethod(ms, m) == IF \E i \in DOMAIN ms : ms[i] = m THEN ms ELSE Append(ms, m)

Ok(v) == [ok |-> TRUE, value |-> v, msg |-> "", num |-> NaN]
Err(m, n) == [ok |-> FALSE, value |-> <<>>, msg |-> m, num |-> n]

\* the attempt with !homes.length for !homes: an empty array throws
fetchJsonApiAttemptEmptyThrows(resp) ==
    IF resp.status \in BLOCK_STATUS THEN Err("Blocked", resp.status)
    ELSE IF resp.status # 200 THEN Err("Unexpected status", resp.status)
    ELSE IF ~resp.body.hasHomes \/ resp.body.homes = <<>>
         THEN Err("Missing homes payload", NaN)
    ELSE Ok(resp.body)

\* main.js 470-483: one attempt of fetchJsonApiPage on a response
fetchJsonApiAttempt(resp) ==
    IF resp.status \in BLOCK_STATUS THEN Err("Blocked", resp.status)
    ELSE IF resp.status # 200 THEN Err("Unexpected status", resp.status)
    ELSE IF ~resp.body.hasHomes THEN Err("Missing homes payload", NaN)
    ELSE Ok(resp.body)

\* main.js 173-175: payload.payload.homes || []
parseHomesFromApi(body) == IF body.hasHomes THEN body.homes ELSE <<>>

\* how a response reads to an observer of the wire: a blocking status or a
\* challenge page, another failure, a body without the results array, an
\* empty results array, or listings
ApiKind(resp) ==
    IF resp.status \in BLOCK_STATUS THEN "blocked"
    ELSE IF resp.status # 200 THEN "error"
    ELSE IF ~resp.body.hasHomes THEN "missing"
    ELSE IF resp.body.homes = <<>> THEN "empty"
    ELSE "homes"

\* the API page catch with an unconditional break
statusInMsgBreaks(err) == IF err.num \in BLOCK_STATUS THEN err.num ELSE 403

\* main.js 693: Number(err.message.match(/\d+/)?.[0])
statusInMsg(err) == err.num

UpperCase == <<"A", "B", "C", "D", "E", "F", "G", "H", "I", "J", "K", "L", "M",
               "N", "O", "P", "Q", "R", "S", "T", "U", "V", "W", "X", "Y", "Z">>
LowerCase == <<"a", "b", "c", "d", "e", "f", "g", "h", "i", "j", "k", "l", "m",
               "n", "o", "p", "q", "r", "s", "t", "u", "v", "w", "x", "y", "z">>
ToLower(c) ==
    IF \E i \in DOMAIN UpperCase : UpperCase[i] = c
    THEN LowerCase[CHOOSE i \in DOMAIN UpperCase : UpperCase[i] = c]
    ELSE c

\* RegExp.test of a literal pattern without the i flag
TestCaseSensitive(pattern, body) ==
    \E i \in 1..(Len(body) - Len(pattern) + 1) :
        \A j \in 1..Len(pattern) : body[i + j - 1] = pattern[j]

\* RegExp.test of a literal pattern with the i flag
TestIgnoreCase(pattern, body) ==
    \E i \in 1..(Len(body) - Len(pattern) + 1) :
        \A j \in 1..Len(pattern) : ToLower(body[i + j - 1]) = pattern[j]

\* main.js 15
DETAIL_BLOCK_PATTERNS ==
    {<<"c", "a", "p", "t", "c", "h", "a">>,
     <<"u", "n", "u", "s", "u", "a", "l", " ", "t", "r", "a", "f", "f", "i", "c">>,
     <<"a", "c", "c", "e", "s", "s", " ", "d", "e", "n", "i", "e", "d">>}

\* main.js 502-515: one attempt of fetchSearchHtml on a response
fetchSearchHtmlAttempt(resp) ==
    IF resp.status \in BLOCK_STATUS THEN Err("Blocked", resp.status)
    ELSE IF resp.status # 200 THEN Err("Unexpected status", resp.status)
    ELSE IF \E pattern \in DETAIL_BLOCK_PATTERNS : TestIgnoreCase(pattern, resp.body)
         THEN Err("HTML response indicates blocking", NaN)
    ELSE Ok(resp.body)

HtmlKind(resp) ==
    IF resp.status \in BLOCK_STATUS THEN "blocked"
    ELSE IF resp.status # 200 THEN "error"
    ELSE IF \E pattern \in DETAIL_BLOCK_PATTERNS : TestIgnoreCase(pattern, resp.body)
         THEN "blocked"
    ELSE IF resp.listings = <<>> THEN "empty"
    ELSE "homes"

\* ----------------------------------------------------------------- limiter
\* The limiter and what its tasks touch, as one value:
\* [active, queue, tasks, seen, claimed, held]; held counts the tasks that returned
\* in their synchronous part and whose finally callback has not run yet.

\* the task without its seen.has test
TaskSyncPhaseNoDedup(l, s, sn) ==
    IF s >= resultsWanted THEN "skipped"
    ELSE IF collectDetails /\ l.url # NoVal THEN "detail"
    ELSE "push"

\* a task without its quota test
TaskSyncPhaseNoQuota(l, s, sn) ==
    IF ListingId(l) # NoVal /\ ListingId(l) \in sn THEN "skipped"
    ELSE IF collectDetails /\ l.url # NoVal THEN "detail"
    ELSE "push"

\* main.js 661-669: a task up to its first await
TaskSyncPhase(l, s, sn) ==
    IF s >= resultsWanted THEN "skipped"
    ELSE IF ListingId(l) # NoVal /\ ListingId(l) \in sn THEN "skipped"
    ELSE IF collectDetails /\ l.url # NoVal THEN "detail"
    ELSE "push"

\* the admission test with > for >=
AdmitsOffByOne(a, q) == ~(a > Limit \/ q = <<>>)

\* main.js 80: the admission test of next
Admits(a, q) == ~(a >= Limit \/ q = <<>>)

\* next as a no-op: queued tasks are never started
nextNeverStarts(sh, s) == sh

\* main.js 79-83: next starts the head of the queue
next(sh, s) ==
    IF ~Admits(sh.active, sh.queue) THEN sh
    ELSE LET t == Head(sh.queue)
             l == sh.tasks[t].listing
             ph == TaskSyncPhase(l, s, sh.seen)
         IN [sh EXCEPT !.active = @ + 1,
                       !.queue = Tail(@),
                       !.tasks[t].phase = ph,
                       !.seen = IF ph # "skipped" /\ ListingId(l) # NoVal
                                THEN @ \cup {ListingId(l)} ELSE @,
                       !.claimed = IF ph # "skipped" /\ ListingId(l) # NoVal
                                   THEN @ (+) SetToBag({ListingId(l)}) ELSE @,
                       !.held = IF ph = "skipped" THEN @ + 1 ELSE @]

\* finally callbacks that give no slot back
DrainKeepsSlots(sh, s) == [sh EXCEPT !.held = 0]

\* main.js 86-89: the finally callbacks of the tasks that have settled
RECURSIVE Drain(_, _)
Drain(sh, s) ==
    IF sh.held = 0 THEN sh
    ELSE Drain(next([sh EXCEPT !.held = @ - 1, !.active = @ - 1], s), s)

\* the limiter putting a new task at the front of its queue
limiterPrepends(sh, l, p, s) ==
    next([sh EXCEPT !.tasks = Append(@, [page |-> p, listing |-> l, phase |-> "queued"]),
                    !.queue = <<Len(sh.tasks) + 1>> \o @], s)

\* main.js 91-95: the limiter called on one task
limiter(sh, l, p, s) ==
    next([sh EXCEPT !.tasks = Append(@, [page |-> p, listing |-> l, phase |-> "queued"]),
                    !.queue = Append(@, Len(sh.tasks) + 1)], s)

\* main.js 659-682: homes.map over the listings of a page
RECURSIVE SubmitAll(_, _, _, _)
SubmitAll(sh, homes, p, s) ==
    IF homes = <<>> THEN sh
    ELSE SubmitAll(limiter(sh, Head(homes), p, s), Tail(homes), p, s)

Shared == [active |-> active, queue |-> queue, tasks |-> tasks, seen |-> seen,
           claimed |-> claimed, held |-> 0]

Settled(ph) == ph \in {"done", "skipped", "failed"}
PageTasks(ts, p) == {t \in DOMAIN ts : ts[t].page = p}
AllSettled(ts, p) == \A t \in PageTasks(ts, p) : Settled(ts[t].phase)

\* ------------------------------------------------- main: the method cascade
Ctl(c, p) == [pc |-> c, page |-> p]
FetchPcs == {"apiFetch", "htmlFetch", "pwFetch"}

\* the final test inverted
FinalInverted(s) == IF s = 0 THEN Ctl("summary", 0) ELSE Ctl("failing", 0)

\* main.js 791-801
Final(s) == IF s = 0 THEN Ctl("failing", 0) ELSE Ctl("summary", 0)
\* the browser gate without its quota test
BrowserGateNoQuota(s) == IF usePlaywright THEN Ctl("pwFetch", 1) ELSE Final(s)

\* main.js 746-747
BrowserGate(s) ==
    IF s < resultsWanted /\ usePlaywright THEN Ctl("pwFetch", 1) ELSE Final(s)
\* main.js 700
HtmlLoop(p, s) ==
    IF p <= maxPages /\ s < resultsWanted THEN Ctl("htmlFetch", p) ELSE BrowserGate(s)
\* the HTML gate without its enable flag
HtmlGateNoFlag(s) == IF s < resultsWanted THEN HtmlLoop(1, s) ELSE BrowserGate(s)

\* main.js 699
HtmlGate(s) ==
    IF s < resultsWanted /\ useHtmlFallback THEN HtmlLoop(1, s) ELSE BrowserGate(s)
\* main.js 644
ApiLoop(p, s) ==
    IF p <= maxPages /\ s < resultsWanted THEN Ctl("apiFetch", p) ELSE HtmlGate(s)

\* main moves on to c; s and ms are the saved count and the methodsUsed set
\* at that moment (main.js 779, 796-800 build the summary from them)
Goto(c, s, ms) ==
    /\ pc' = c.pc
    /\ page' = c.page
    /\ attempt' = 0
    /\ pageReqs' = IF c.pc \in FetchPcs THEN pageReqs \cup {<<c.pc, c.page>>} ELSE pageReqs
    /\ summary' = IF c.pc = "summary"
                  THEN Append(summary, [propertiesSaved |-> s, methodsUsed |-> ms])
                  ELSE summary

\* main.js 684-689: what follows Promise.all resolving
AfterPage(s) == IF s >= resultsWanted THEN HtmlGate(s) ELSE Ctl("apiDelay", page)

\* main.js 715-719, 750-754: the listing loop up to its next await
RECURSIVE Scan(_, _, _, _)
Scan(ls, i, s, sn) ==
    IF i > Len(ls) \/ s >= resultsWanted
    THEN [item |-> 0, seen |-> sn, claim |-> NoVal, kind |-> "end"]
    ELSE LET id == ListingId(ls[i]) IN
         IF id # NoVal /\ id \in sn THEN Scan(ls, i + 1, s, sn)
         ELSE [item |-> i,
               seen |-> IF id # NoVal THEN sn \cup {id} ELSE sn,
               claim |-> id,
               kind |-> IF collectDetails /\ ls[i].url # NoVal THEN "detail" ELSE "push"]

NoResp == [method |-> "none", page |-> 0, kind |-> "other"]
Note(method, kind) ==
    IF kind \in {"empty", "missing"} \/ (kind = "blocked" /\ attempt >= maxRetries)
    THEN [method |-> method, page |-> page, kind |-> kind]
    ELSE NoResp

\* ------------------------------------------------- buildProperty, by field
\* JavaScript values: null or undefined, a number, a string (of characters)
Null == [t |-> "null", n |-> 0, s |-> <<>>]
Num(k) == [t |-> "num", n |-> k, s |-> <<>>]
Str(x) == [t |-> "str", n |-> 0, s |-> x]
Truthy(v) == (v.t = "num" /\ v.n # 0) \/ (v.t = "str" /\ v.s # <<>>)
\* a || b
Or(a, b) == IF Truthy(a) THEN a ELSE b

DigitChars == <<"0", "1", "2", "3", "4", "5", "6", "7", "8", "9">>
IsDigit(c) == \E i \in DOMAIN DigitChars : DigitChars[i] = c
DigitOf(c) == (CHOOSE i \in DOMAIN DigitChars : DigitChars[i] = c) - 1
\* Number(digits), for a string of digits
RECURSIVE ToNumber(_)
ToNumber(ds) ==
    IF ds = <<>> THEN 0
    ELSE 10 * ToNumber(SubSeq(ds, 1, Len(ds) - 1)) + DigitOf(ds[Len(ds)])
\* n.toLocaleString() for n < 1000
RECURSIVE ToLocaleString(_)
ToLocaleString(n) ==
    IF n < 10 THEN <<DigitChars[n + 1]>>
    ELSE ToLocaleString(n \div 10) \o <<DigitChars[(n % 10) + 1]>>

\* main.js 10, 31-35
REDFIN_BASE == <<"h", "t", "t", "p", "s", ":", "/", "/", "r">>
StartsWith(x, prefix) == Len(x) >= Len(prefix) /\ SubSeq(x, 1, Len(prefix)) = prefix
ensureAbsoluteUrl(url) ==
    IF ~Truthy(url) THEN Null
    ELSE IF StartsWith(url.s, <<"h", "t", "t", "p">>) THEN url
    ELSE Str(REDFIN_BASE \o (IF StartsWith(url.s, <<"/">>) THEN <<>> ELSE <<"/">>) \o url.s)

\* main.js 390-395, for strings without a dot
normalizeNumber(value) ==
    IF value.t = "null" THEN Null
    ELSE IF value.t = "num" THEN value
    ELSE LET numeric == SelectSeq(value.s, IsDigit) IN
         IF numeric # <<>> THEN Num(ToNumber(numeric)) ELSE Null

\* main.js 397-404
formattedPrice(priceVal) ==
    IF priceVal.t = "num" THEN Str(<<"$">> \o ToLocaleString(priceVal.n))
    ELSE IF priceVal.t = "str" /\ StartsWith(priceVal.s, <<"$">>) THEN priceVal
    ELSE IF Truthy(priceVal)
         THEN LET n == normalizeNumber(priceVal) IN
              Str(<<"$">> \o (IF Truthy(n) THEN ToLocaleString(n.n) ELSE priceVal.s))
    ELSE Null

\* the fields of the record that both partial records can feed under the
\* same key, by the form of their expression in main.js 410-437
OrNullFields == {"status", "listingDate", "latitude", "longitude", "mlsNumber",
                 "lotSize", "yearBuilt", "hoa"}
PlainFields == {"streetAddress", "city", "state", "zip"}
NumberFields == {"beds", "baths", "sqft"}
MergedFields == OrNullFields \cup PlainFields \cup NumberFields \cup {"price", "propertyType", "url"}

\* main.js 383-388, 406-409, 423-433: which of the two values is taken
Chosen(field, l, d) ==
    IF field \in {"propertyType", "url"} THEN Or(l, d) ELSE Or(d, l)

\* main.js 384, 397-404, 412-433: what the record shows of the value taken
\* (the url without the propertyId fallback of 384: no identifier is given)
Shown(field, v) ==
    IF field = "url" THEN ensureAbsoluteUrl(v)
    ELSE IF field = "price" THEN formattedPrice(v)
    ELSE IF field \in NumberFields THEN normalizeNumber(v)
    ELSE IF field \in PlainFields THEN v
    ELSE Or(v, Null)

\* main.js 382-437, one field of the record
buildPropertyField(field, l, d) == Shown(field, Chosen(field, l, d))

\* values a field can take in a partial record
FieldValues(field) ==
    IF field = "url" THEN {Null, Str(<<"h", "t", "t", "p", "a">>), Str(<<"/", "b">>)}
    ELSE IF field = "price" THEN {Null, Num(5), Str(<<"$", "6">>), Str(<<"7">>)}
    ELSE IF field \in NumberFields THEN {Null, Num(0), Num(3), Str(<<"4">>), Str(<<"b", "d">>)}
    ELSE IF field \in {"latitude", "longitude"} THEN {Null, Num(0), Num(3), Num(4)}
    ELSE {Null, Str(<<>>), Str(<<"a">>), Str(<<"b">>)}

NoMerge == [field |-> "none", listing |-> Null, detail |-> Null, out |-> Null, built |-> FALSE]

\* --------------------------------------------------------- requestWithRetry
\* what one invocation of fn does: it returns, or it throws an error that
\* carries an HTTP status (0 for a timeout or a connection error)
WrapperOutcomes == [ok : {TRUE}, status : {200}] \cup [ok : {FALSE}, status : BLOCK_STATUS \cup {500, 0}]
\* undefined, the error of the n-th invocation, the value it returned
NoError == [status |-> -1, call |-> 0]
ErrorOf(status, n) == [status |-> status, call |-> n]
NoRetry == [maxRetries |-> 0, attempt |-> 0, state |-> "idle", calls |-> <<>>, waits |-> 0,
            lastError |-> NoError, out |-> NoError]

\* the catch with attempt > maxRetries for attempt >= maxRetries
AfterFailureLate(att, max) == IF att > max THEN "threw" ELSE "waiting"

\* main.js 122-125: after a failed attempt, break (and throw at 128), or wait
AfterFailure(att, max) == IF att >= max THEN "threw" ELSE "waiting"

\* ------------------------------------------------------------- createLimiter
Pending == [settled |-> FALSE, ok |-> FALSE, by |-> 0]
NoPool == [maxConcurrency |-> 1, active |-> 0, queue |-> <<>>, running |-> {}, tasks |-> <<>>]

\* next as a no-op
poolNextIdle(p) == p

\* main.js 79-83: next starts the task of the entry at the head of the queue
poolNext(p) ==
    IF p.active >= p.maxConcurrency \/ Len(p.queue) = 0 THEN p
    ELSE LET e == Head(p.queue) IN
         [p EXCEPT !.active = @ + 1, !.queue = Tail(@), !.running = @ \cup {e},
                   !.tasks[e.task].state = "running"]

\* -------------------------------------------------------- fetchViaPlaywright
NoSession == [call |-> 0, proxy |-> FALSE, step |-> "idle", browser |-> 0, context |-> 0,
              page |-> 0, closing |-> 0, open |-> {}, closed |-> <<>>, rejected |-> {},
              out |-> "none"]

\* main.js 543-547, 556-573: the awaited steps of the try block, in order
TrySteps == <<"newUrl", "launch", "newContext", "addInitScript", "newPage", "goto",
              "waitForTimeout", "content">>
StepAfter(step) == TrySteps[(CHOOSE i \in DOMAIN TrySteps : TrySteps[i] = step) + 1]

\* main.js 579-581: the handles in the order the finally block closes them
Handles == <<"page", "context", "browser">>
\* closing a browser closes its contexts and pages, closing a context its pages
Within(kind) ==
    CASE kind = "page" -> {"page"}
      [] kind = "context" -> {"page", "context"}
      [] kind = "browser" -> {"page", "context", "browser"}

\* the function returning without a finally block
finallyMissing(sess, i) == [sess EXCEPT !.step = "returned"]

\* main.js 578-582: the finally block from its i-th line on, up to the next
\* close() it awaits or to the return
RECURSIVE finallyFrom(_, _)
finallyFrom(sess, i) ==
    IF i > Len(Handles) THEN [sess EXCEPT !.step = "returned", !.closing = 0]
    ELSE IF sess[Handles[i]] # 0
    THEN [sess EXCEPT !.step = "closing", !.closing = i, !.closed = Append(@, Handles[i])]
    ELSE finallyFrom(sess, i + 1)

\* ---------------------------------------------------------- deriveRegionMeta
\* main.js 13
REGION_TYPE_MAP(type) ==
    CASE type = <<"c", "i", "t", "y">> -> 6
      [] type = <<"z", "i", "p", "c", "o", "d", "e">> -> 5
      [] type = <<"n", "e", "i", "g", "h", "b", "o", "r", "h", "o", "o", "d">> -> 4
      [] type = <<"c", "o", "u", "n", "t", "y">> -> 2
      [] type = <<"s", "t", "a", "t", "e">> -> 1
RegionTypes == {<<"c", "i", "t", "y">>, <<"z", "i", "p", "c", "o", "d", "e">>,
                <<"n", "e", "i", "g", "h", "b", "o", "r", "h", "o", "o", "d">>,
                <<"c", "o", "u", "n", "t", "y">>, <<"s", "t", "a", "t", "e">>}
LowerOf(x) == [i \in DOMAIN x |-> ToLower(x[i])]

\* main.js 102: the matches of /\/(city|zipcode|neighborhood|county|state)\/(\d+)\//i
\* in a pathname, as [at, type, digits]: a slash at position at, a type name
\* in any case, a slash, one or more digits, a slash
RegionMatches(pathname) ==
    {[at |-> i, type |-> SubSeq(pathname, i + 1, i + n), digits |-> SubSeq(pathname, i + n + 2, i + n + 1 + k)] :
        <<i, n, k>> \in {m \in (1..Len(pathname)) \X (1..Len(pathname)) \X (1..Len(pathname)) :
            /\ m[1] + m[2] + m[3] + 2 <= Len(pathname)
            /\ pathname[m[1]] = "/"
            /\ LowerOf(SubSeq(pathname, m[1] + 1, m[1] + m[2])) \in RegionTypes
            /\ pathname[m[1] + m[2] + 1] = "/"
            /\ \A j \in (m[1] + m[2] + 2)..(m[1] + m[2] + 1 + m[3]) : IsDigit(pathname[j])
            /\ pathname[m[1] + m[2] + m[3] + 2] = "/"}}
\* String.prototype.match without the g flag: the leftmost match, or none
RegionMatch(pathname) ==
    LET ms == RegionMatches(pathname) IN
    IF ms = {} THEN {} ELSE {CHOOSE m \in ms : \A o \in ms : m.at <= o.at}

NullMeta == [isNull |-> TRUE, regionId |-> Null, regionType |-> Null]
\* deriveRegionMeta with the URL-derived values first
deriveRegionMetaUrlFirst(url, explicitRegionId, explicitRegionType) ==
    IF ~url.given \/ ~url.parses THEN NullMeta
    ELSE LET match == RegionMatch(url.pathname) IN
         [isNull |-> FALSE,
          regionId |-> IF match # {} THEN Str((CHOOSE m \in match : TRUE).digits)
                       ELSE explicitRegionId,
          regionType |-> IF match # {}
                         THEN Num(REGION_TYPE_MAP(LowerOf((CHOOSE m \in match : TRUE).type)))
                         ELSE Or(explicitRegionType, Num(6))]

\* main.js 98-111; url is [given, parses, pathname]: parses tells whether
\* new URL(url) returns rather than throws
deriveRegionMeta(url, explicitRegionId, explicitRegionType) ==
    IF ~url.given \/ ~url.parses THEN NullMeta
    ELSE LET match == RegionMatch(url.pathname) IN
         [isNull |-> FALSE,
          regionId |-> Or(explicitRegionId,
                          IF match # {} THEN Str((CHOOSE m \in match : TRUE).digits) ELSE Null),
          regionType |-> Or(explicitRegionType,
                            IF match # {}
                            THEN Num(REGION_TYPE_MAP(LowerOf((CHOOSE m \in match : TRUE).type)))
                            ELSE Num(6))]

\* pathnames made of a prefix, a type as written, a digit string and a rest,
\* and pathnames without a region segment
TypesWritten == RegionTypes \cup {<<"C", "i", "t", "y">>, <<"Z", "I", "P", "C", "O", "D", "E">>}
DigitStrings == {<<"2", "9", "4", "7", "0">>, <<"7">>}
Prefixes == {<<>>, <<"/", "u", "s">>}
Rests == {<<>>, <<"I", "L", "/", "C", "h", "i", "c", "a", "g", "o">>}
RegionPath(prefix, type, digits, rest) == prefix \o <<"/">> \o type \o <<"/">> \o digits \o <<"/">> \o rest
OtherPaths == {<<"/", "c", "i", "t", "y", "/", "2", "9", "4", "7", "0">>, <<"/", "h", "o", "m", "e", "s", "/", "1", "2", "/", "x">>,
               <<"/", "c", "i", "t", "y", "/", "a", "b", "/", "x">>, <<"/">>}
NoDerive == [url |-> [given |-> FALSE, parses |-> FALSE, pathname |-> <<>>],
             regionId |-> Null, regionType |-> Null, out |-> NullMeta, called |-> FALSE]

\* ------------------------------------------------------------------ actions
\* a function without key k, and with key k set to v
Drop(f, k) == [x \in DOMAIN f \ {k} |-> f[x]]
Put(f, k, v) == [x \in DOMAIN f \cup {k} |-> IF x = k THEN v ELSE f[x]]

\* main.js 792
errorMsg == "Failed to scrape any properties. Check proxy, region ID, or Redfin availability."
\* main.js 620, and the message of a rejected Dataset.pushData
StartUrlError == "Provide startUrl."
PushError == "pushData rejected"
\* the TypeError of reading .message of undefined (main.js 692, 741, 525)
MessageOfUndefined == "Cannot read properties of undefined (reading 'message')"

\* how the process ended: status and message as the platform reports them,
\* error the message of the exception that left main's try block ("" if none)
Running == [status |-> "running", message |-> "", error |-> ""]
\* main.js 794: Actor.fail(errorMsg)
Failed(msg) == [status |-> "failed", message |-> msg, error |-> ""]
\* main.js 796-807: Actor.setValue, then Actor.exit() without a message
Succeeded == [status |-> "succeeded", message |-> "", error |-> ""]
\* main.js 802-807: the catch rethrows err and the finally block awaits
\* Actor.exit() first. ends: Actor.exit() ends the process there, as it does
\* after a summary; otherwise it returns and err leaves the module uncaught
Thrown(err, ends) ==
    IF ends THEN [status |-> "succeeded", message |-> "", error |-> err]
    ELSE [status |-> "crashed", message |-> err, error |-> err]

NoFetch == [caller |-> "none", state |-> "idle", attempt |-> 0,
            last |-> [status |-> 0, body |-> <<>>, ok |-> FALSE], handed |-> {}]

\* main.js 623-627: the state main starts from
InitRun ==
    /\ merge = NoMerge /\ derive = NoDerive /\ retry = NoRetry /\ session = NoSession
    /\ pool = NoPool
    /\ pc = "init" /\ page = 0 /\ attempt = 0
    /\ listings = <<>> /\ item = 0 /\ apiSucceeded = FALSE
    /\ seen = {} /\ saved = 0 /\ claimed = EmptyBag
    /\ lastResp = NoResp
    /\ overBudget = FALSE
    /\ stats = [apiPages |-> 0, htmlPages |-> 0, errors |-> 0, methodsUsed |-> <<>>]
    /\ active = 0 /\ queue = <<>> /\ tasks = <<>>
    /\ sink = EmptyBag /\ summary = <<>> /\ exitStatus = Running
    /\ pageReqs = {} /\ pushFailed = FALSE
    /\ fetch = NoFetch
    /\ detail = <<>> /\ detailAttempt = <<>>

Init ==
    /\ resultsWanted \in {1, MaxWanted}
    /\ maxPages \in {1, MaxPagesBound}
    /\ maxConcurrency \in ConcurrencySamples
    /\ maxRetries \in {0, MaxRetriesBound}
    /\ collectDetails \in BOOLEAN
    /\ preferJson \in BOOLEAN
    /\ useHtmlFallback \in BOOLEAN
    /\ usePlaywright \in BOOLEAN
    /\ target \in TargetSamples
    /\ InitRun

Apply(sh) ==
    /\ active' = sh.active
    /\ queue' = sh.queue
    /\ tasks' = sh.tasks
    /\ seen' = sh.seen
    /\ claimed' = sh.claimed

\* main.js 684-695: main resumes from await Promise.all(tasks), in the same
\* turn as the task event that settles it. rejected: a task of the awaited
\* page has just rejected; blk: the catch reads a blocking status in its message.
MainAfter(sh, s, rejected, blk) ==
    IF pc = "apiWait" /\ rejected
    THEN /\ stats' = [stats EXCEPT !.errors = @ + 1]
         /\ Goto(IF blk THEN HtmlGate(s) ELSE ApiLoop(page + 1, s), s, stats.methodsUsed)
         /\ UNCHANGED apiSucceeded
    ELSE IF pc = "apiWait" /\ AllSettled(sh.tasks, page)
    THEN /\ apiSucceeded' = TRUE
         /\ Goto(AfterPage(s), s, stats.methodsUsed)
         /\ UNCHANGED stats
    ELSE UNCHANGED <<ctlVars, apiSucceeded, stats>>

\* main.js 617-643
Start ==
    /\ pc = "init"
    /\ IF target = "none"
       THEN /\ pc' = "crashing"
            /\ UNCHANGED <<page, attempt, pageReqs, summary>>
       ELSE Goto(IF target = "unresolved" THEN Final(saved)
                 ELSE IF preferJson THEN ApiLoop(1, saved)
                 ELSE HtmlGate(saved), saved, stats.methodsUsed)
    /\ UNCHANGED <<inputVars, clockVars, fetchVars, histVars, faultVars, loopVars, apiSucceeded, sharedVars, limiterVars, outVars>>

\* main.js 646-658 with 113-129: one attempt of the API page request answers
ApiResponse ==
    /\ pc = "apiFetch"
    /\ attempt <= maxRetries
    /\ \E resp \in ApiResponses :
         LET r == fetchJsonApiAttempt(resp) IN
         /\ lastResp' = Note("json-api", ApiKind(resp))
         /\ IF r.ok
            THEN LET homes == parseHomesFromApi(r.value) IN
                 IF homes = <<>>
                 THEN /\ Goto(HtmlGate(saved), saved, stats.methodsUsed)
                      /\ UNCHANGED <<apiSucceeded, sharedVars, limiterVars>>
                 ELSE LET sh == Drain(SubmitAll(Shared, homes, page, saved), saved)
                          ms == AddMethod(stats.methodsUsed, "json-api")
                      IN /\ stats' = [stats EXCEPT !.methodsUsed = ms, !.apiPages = @ + 1]
                         /\ Apply(sh)
                         /\ IF AllSettled(sh.tasks, page)
                            THEN /\ apiSucceeded' = TRUE
                                 /\ Goto(AfterPage(saved), saved, ms)
                            ELSE /\ pc' = "apiWait"
                                 /\ UNCHANGED <<page, attempt, pageReqs, summary, apiSucceeded>>
                         /\ UNCHANGED saved
            ELSE IF attempt >= maxRetries
            THEN /\ stats' = [stats EXCEPT !.errors = @ + 1]
                 /\ Goto(IF statusInMsg(r) \in BLOCK_STATUS THEN HtmlGate(saved)
                         ELSE ApiLoop(page + 1, saved), saved, stats.methodsUsed)
                 /\ UNCHANGED <<apiSucceeded, dedupVars, saved, limiterVars>>
            ELSE /\ attempt' = attempt + 1
                 /\ UNCHANGED <<pc, page, pageReqs, summary, apiSucceeded, sharedVars, limiterVars>>
    /\ UNCHANGED <<inputVars, clockVars, fetchVars, faultVars, loopVars, outVars>>

\* main.js 668, 722, 757: let detail = {}, unless fetchDetailPage filled it
DetailOf(k) == IF k \in DOMAIN detail THEN detail[k] ELSE "empty"

\* main.js 669-676: the pacing delay and fetchDetailPage of a task end;
\* fetchDetailPage (520-528) returns the parsed detail or, on failure, {},
\* and the task goes on to its push either way
TaskDetailDone(t) ==
    /\ pc # "done"
    /\ tasks[t].phase = "detail"
    /\ tasks' = [tasks EXCEPT ![t].phase = "push"]
    /\ UNCHANGED <<inputVars, clockVars, fetchVars, histVars, faultVars, ctlVars, loopVars, apiSucceeded, sharedVars, active, queue, outVars>>

\* main.js 678-680 with 84-89: the push of a task resolves
TaskPushDone(t) ==
    /\ pc # "done"
    /\ tasks[t].phase = "push"
    /\ LET s == saved + 1
           sh == Drain(next([Shared EXCEPT !.tasks[t].phase = "done",
                                           !.active = @ - 1], s), s)
       IN /\ saved' = s
          /\ sink' = sink (+) SetToBag({buildProperty(tasks[t].listing, DetailOf(t), "json-api")})
          /\ Apply(sh)
          /\ MainAfter(sh, s, FALSE, FALSE)
    /\ detail' = Drop(detail, t)
    /\ UNCHANGED <<inputVars, clockVars, fetch, detailAttempt, histVars, faultVars, loopVars, exitStatus>>

\* main.js 679 with 85-89: the push of a task rejects
TaskPushFail(t) ==
    /\ pc # "done"
    /\ tasks[t].phase = "push"
    /\ ~pushFailed
    /\ pushFailed' = TRUE
    /\ LET sh == Drain(next([Shared EXCEPT !.tasks[t].phase = "failed",
                                           !.active = @ - 1], saved), saved)
       IN /\ Apply(sh)
          /\ \E blk \in BOOLEAN :
               /\ blk => (pc = "apiWait" /\ tasks[t].page = page)
               /\ MainAfter(sh, saved, tasks[t].page = page, blk)
    /\ detail' = Drop(detail, t)
    /\ UNCHANGED <<inputVars, clockVars, fetch, detailAttempt, histVars, loopVars, saved, outVars>>

\* main.js 689: the delay between two API pages ends
ApiDelayDone ==
    /\ pc = "apiDelay"
    /\ Goto(ApiLoop(page + 1, saved), saved, stats.methodsUsed)
    /\ UNCHANGED <<inputVars, clockVars, fetchVars, histVars, faultVars, loopVars, apiSucceeded, sharedVars, limiterVars, outVars>>

\* main.js 715-738, 750-771: main continues a listing loop from listing i
Continue(method, ls, i, s, ms) ==
    LET sc == Scan(ls, i, s, seen) IN
    /\ seen' = sc.seen
    /\ claimed' = IF sc.claim # NoVal THEN claimed (+) SetToBag({sc.claim}) ELSE claimed
    /\ item' = sc.item
    /\ IF sc.kind = "end"
       THEN Goto(IF method = "playwright" THEN Final(s)
                 ELSE IF s >= resultsWanted THEN BrowserGate(s)
                 ELSE Ctl("htmlDelay", page), s, ms)
       ELSE /\ pc' = (IF method = "playwright" THEN "pw" ELSE "html")
                     \o (IF sc.kind = "detail" THEN "Detail" ELSE "Push")
            /\ UNCHANGED <<page, attempt, pageReqs, summary>>

\* main.js 703-713 with 113-129: one attempt of the HTML page request answers
HtmlResponse ==
    /\ pc = "htmlFetch"
    /\ attempt <= maxRetries
    /\ \E resp \in HtmlResponses :
         LET r == fetchSearchHtmlAttempt(resp) IN
         /\ lastResp' = Note("html", HtmlKind(resp))
         /\ IF r.ok
            THEN IF resp.listings = <<>>
                 THEN /\ Goto(BrowserGate(saved), saved, stats.methodsUsed)
                      /\ UNCHANGED <<loopVars, dedupVars, stats>>
                 ELSE LET ms == AddMethod(stats.methodsUsed, "html") IN
                      /\ stats' = [stats EXCEPT !.methodsUsed = ms, !.htmlPages = @ + 1]
                      /\ listings' = resp.listings
                      /\ Continue("html", resp.listings, 1, saved, ms)
            ELSE IF attempt >= maxRetries
            THEN /\ stats' = [stats EXCEPT !.errors = @ + 1]
                 /\ Goto(HtmlLoop(page + 1, saved), saved, stats.methodsUsed)
                 /\ UNCHANGED <<loopVars, dedupVars>>
            ELSE /\ attempt' = attempt + 1
                 /\ UNCHANGED <<pc, page, pageReqs, summary, loopVars, dedupVars, stats>>
    /\ UNCHANGED <<inputVars, clockVars, fetchVars, faultVars, apiSucceeded, saved, limiterVars, outVars>>

\* main.js 723-729, 758-764: the delay and fetchDetailPage of a listing end
InlineDetailDone ==
    /\ pc \in {"htmlDetail", "pwDetail"}
    /\ 0 <= maxRetries
    /\ pc' = IF pc = "htmlDetail" THEN "htmlPush" ELSE "pwPush"
    /\ UNCHANGED <<inputVars, clockVars, fetchVars, histVars, faultVars, page, attempt, pageReqs, summary, listings, item,
                   apiSucceeded, sharedVars, limiterVars, outVars>>

\* main.js 732-735: the push of an HTML listing resolves
HtmlPushDone ==
    /\ pc = "htmlPush"
    /\ saved' = saved + 1
    /\ sink' = sink (+) SetToBag({buildProperty(listings[item], DetailOf(0), "html")})
    /\ Continue("html", listings, item + 1, saved + 1, stats.methodsUsed)
    /\ detail' = Drop(detail, 0)
    /\ UNCHANGED <<inputVars, clockVars, fetch, detailAttempt, histVars, faultVars, listings, apiSucceeded, stats, limiterVars, exitStatus>>

\* main.js 733, 739-742: the push of an HTML listing rejects
HtmlPushFail ==
    /\ pc = "htmlPush"
    /\ ~pushFailed
    /\ pushFailed' = TRUE
    /\ stats' = [stats EXCEPT !.errors = @ + 1]
    /\ Goto(HtmlLoop(page + 1, saved), saved, stats.methodsUsed)
    /\ detail' = Drop(detail, 0)
    /\ UNCHANGED <<inputVars, clockVars, fetch, detailAttempt, histVars, loopVars, apiSucceeded, dedupVars, saved,
                   limiterVars, outVars>>

\* main.js 738: the delay between two HTML pages ends
HtmlDelayDone ==
    /\ pc = "htmlDelay"
    /\ Goto(HtmlLoop(page + 1, saved), saved, stats.methodsUsed)
    /\ UNCHANGED <<inputVars, clockVars, fetchVars, histVars, faultVars, loopVars, apiSucceeded, sharedVars, limiterVars, outVars>>

\* main.js 747-748 with 550-583: fetchViaPlaywright returns listings, or []
\* when any step of the browser session failed
BrowserResponse ==
    /\ pc = "pwFetch"
    /\ \E ls \in {HomesBrowser, <<>>} :
         LET ms == IF ls # <<>> THEN AddMethod(stats.methodsUsed, "playwright")
                   ELSE stats.methodsUsed IN
         /\ stats' = [stats EXCEPT !.methodsUsed = ms]
         /\ listings' = ls
         /\ Continue("playwright", ls, 1, saved, ms)
    /\ UNCHANGED <<inputVars, clockVars, fetchVars, histVars, faultVars, apiSucceeded, saved, limiterVars, outVars>>

\* main.js 767-769: the push of a browser listing resolves
BrowserPushDone ==
    /\ pc = "pwPush"
    /\ saved' = saved + 1
    /\ sink' = sink (+) SetToBag({buildProperty(listings[item], DetailOf(0), "playwright")})
    /\ Continue("playwright", listings, item + 1, saved + 1, stats.methodsUsed)
    /\ detail' = Drop(detail, 0)
    /\ UNCHANGED <<inputVars, clockVars, fetch, detailAttempt, histVars, faultVars, listings, apiSucceeded, stats, limiterVars, exitStatus>>

\* main.js 768, 802-805: the push of a browser listing rejects; nothing
\* catches it before the outer handler rethrows
BrowserPushFail ==
    /\ pc = "pwPush"
    /\ ~pushFailed
    /\ pushFailed' = TRUE
    /\ pc' = "crashing"
    /\ detail' = Drop(detail, 0)
    /\ UNCHANGED <<inputVars, clockVars, fetch, detailAttempt, histVars, page, attempt, pageReqs, summary, loopVars, apiSucceeded,
                   sharedVars, limiterVars, outVars>>

\* main.js 794, 796-801, 806-808: Actor.fail, or Actor.setValue and
\* Actor.exit, end the process
Exit ==
    /\ pc \in {"failing", "summary", "crashing"}
    /\ pc' = "done"
    /\ \E ends \in BOOLEAN :
         /\ pc # "crashing" => ends
         /\ exitStatus' = (CASE pc = "failing" -> Failed(errorMsg)
                             [] pc = "summary" -> Succeeded
                             [] OTHER -> Thrown(IF target = "none" THEN StartUrlError
                                                ELSE IF pushFailed THEN PushError
                                                ELSE MessageOfUndefined, ends))
    /\ UNCHANGED <<inputVars, clockVars, fetchVars, histVars, faultVars, page, attempt, pageReqs, summary, loopVars, apiSucceeded,
                   sharedVars, limiterVars, sink>>

\* every step but the end of a fetchDetailPage call
MainSteps ==
    \/ Start
    \/ ApiResponse
    \/ \E t \in DOMAIN tasks : TaskPushDone(t)
    \/ \E t \in DOMAIN tasks : TaskPushFail(t)
    \/ ApiDelayDone
    \/ HtmlResponse
    \/ HtmlPushDone
    \/ HtmlPushFail
    \/ HtmlDelayDone
    \/ BrowserResponse
    \/ BrowserPushDone
    \/ BrowserPushFail
    \/ Exit

Next ==
    \/ MainSteps
    \/ \E t \in DOMAIN tasks : TaskDetailDone(t)
    \/ InlineDetailDone

Spec == Init /\ [][Next]_vars

\* ------------------------------------------- the run for any maxRetries
\* main.js 605: maxRetries is taken from the input as it is, so it may be
\* negative. requestWithRetry (113-129) then skips its while loop and throws
\* lastError, which is undefined; the catch that receives it reads
\* err.message (692, 741, 525) and throws a TypeError of its own.
RetryInit ==
    /\ resultsWanted \in {1, MaxWanted}
    /\ maxPages \in {1, MaxPagesBound}
    /\ maxConcurrency \in ConcurrencySamples
    /\ maxRetries \in {-1, 0, MaxRetriesBound}
    /\ collectDetails \in BOOLEAN
    /\ preferJson \in BOOLEAN
    /\ useHtmlFallback \in BOOLEAN
    /\ usePlaywright \in BOOLEAN
    /\ target \in TargetSamples
    /\ InitRun

\* main.js 116, 128: no attempt is made and undefined is thrown. In a page
\* catch (690-692, 739-741) the error is counted and the log line throws out
\* of main's try; in fetchDetailPage (524-525) the catch throws to its
\* caller: the HTML page catch, or, from the browser loop (758-764), main's try.
RetryLoopSkipped ==
    /\ pc \in {"apiFetch", "htmlFetch", "htmlDetail", "pwDetail"}
    /\ attempt > maxRetries
    /\ IF pc = "htmlDetail"
       THEN /\ stats' = [stats EXCEPT !.errors = @ + 1]
            /\ Goto(HtmlLoop(page + 1, saved), saved, stats.methodsUsed)
       ELSE /\ stats' = [stats EXCEPT !.errors = IF pc = "pwDetail" THEN @ ELSE @ + 1]
            /\ pc' = "crashing"
            /\ UNCHANGED <<page, attempt, pageReqs, summary>>
    /\ UNCHANGED <<inputVars, clockVars, fetchVars, histVars, faultVars, loopVars, apiSucceeded,
                   dedupVars, saved, limiterVars, outVars>>

RetryNext ==
    \/ Next
    \/ RetryLoopSkipped

RetrySpec == RetryInit /\ [][RetryNext]_vars

\* Every awaited operation (a fetch attempt, a delay, a sink push, the exit)
\* settles in the end: a step that stays possible is taken.
LiveInit ==
    /\ resultsWanted = MaxWanted
    /\ maxPages = MaxPagesBound
    /\ maxConcurrency = 11
    /\ maxRetries \in {-1, MaxRetriesBound}
    /\ collectDetails = TRUE
    /\ preferJson \in BOOLEAN
    /\ useHtmlFallback \in BOOLEAN
    /\ usePlaywright \in BOOLEAN
    /\ target \in TargetSamples
    /\ InitRun

\* a pending fetch attempt, delay or exit settles
Settles ==
    /\ WF_vars(Start) /\ WF_vars(Exit) /\ WF_vars(RetryLoopSkipped)
    /\ WF_vars(ApiResponse) /\ WF_vars(HtmlResponse) /\ WF_vars(BrowserResponse)
    /\ WF_vars(ApiDelayDone) /\ WF_vars(HtmlDelayDone)
    /\ WF_vars(InlineDetailDone)
    /\ WF_vars(\E t \in DOMAIN tasks : TaskDetailDone(t))

\* a pending sink push resolves or rejects
PushSettles ==
    /\ WF_vars(\E t \in DOMAIN tasks : TaskPushDone(t) \/ TaskPushFail(t))
    /\ WF_vars(HtmlPushDone \/ HtmlPushFail)
    /\ WF_vars(BrowserPushDone \/ BrowserPushFail)

LiveSpec == LiveInit /\ [][RetryNext]_vars /\ Settles /\ PushSettles

\* the run with a wall clock: the documented budget (README.md 371) may run
\* out at any moment after the start
BudgetExpires ==
    /\ pc \notin {"init", "done"}
    /\ ~overBudget
    /\ overBudget' = TRUE
    /\ UNCHANGED <<inputVars, ctlVars, loopVars, apiSucceeded, sharedVars, limiterVars,
                   outVars, faultVars, histVars, fetchVars>>

NextClock == Next \/ BudgetExpires

SpecClock == Init /\ [][NextClock]_vars

\* --------------------------------------------- fetchSearchHtml by itself
\* The HTML fetcher followed attempt by attempt on bodies of characters, for
\* its two callers: the HTML page loop (main.js 703-709) and fetchDetailPage.
runVars == <<ctlVars, loopVars, apiSucceeded, sharedVars, limiterVars, outVars,
             faultVars, histVars, clockVars>>

FetchInit ==
    /\ resultsWanted = 1 /\ maxPages = 1 /\ maxConcurrency = 2
    /\ maxRetries \in 0..MaxRetriesBound
    /\ collectDetails = TRUE /\ preferJson = FALSE
    /\ useHtmlFallback = TRUE /\ usePlaywright = FALSE
    /\ target = "resolved"
    /\ InitRun

\* main.js 703: the HTML page loop calls fetchSearchHtml
FetchSearchCall ==
    /\ fetch.state # "inflight"
    /\ fetch' = [fetch EXCEPT !.caller = "search", !.state = "inflight", !.attempt = 0]
    /\ UNCHANGED <<inputVars, runVars, detail, detailAttempt>>

\* main.js 522: fetchDetailPage calls fetchSearchHtml
FetchDetailCall ==
    /\ fetch.state # "inflight"
    /\ fetch' = [fetch EXCEPT !.caller = "detail", !.state = "inflight", !.attempt = 0]
    /\ UNCHANGED <<inputVars, runVars, detail, detailAttempt>>

\* main.js 116-126 around 491-515: one attempt answers; the body it returns
\* goes to parseHtmlListPage (709) or parseHtmlDetail (523), the error of the
\* last attempt goes to the page catch (739) or is swallowed by
\* fetchDetailPage, which returns {} (524-527)
FetchAnswer ==
    /\ fetch.state = "inflight"
    /\ \E resp \in FetchResponses :
         LET r == fetchSearchHtmlAttempt(resp)
             last == [status |-> resp.status, body |-> resp.body, ok |-> r.ok]
             extractor == IF fetch.caller = "search" THEN "parseHtmlListPage"
                          ELSE "parseHtmlDetail"
         IN  fetch' =
               IF r.ok
               THEN [fetch EXCEPT !.state = "returned", !.last = last,
                                  !.handed = @ \cup {<<extractor, "response", r.value>>}]
               ELSE IF fetch.attempt >= maxRetries
               THEN [fetch EXCEPT !.last = last,
                                  !.state = IF fetch.caller = "search" THEN "threw"
                                            ELSE "returnedEmpty"]
               ELSE [fetch EXCEPT !.last = last, !.attempt = @ + 1]
    /\ UNCHANGED <<inputVars, runVars, detail, detailAttempt>>

\* main.js 570-574: fetchViaPlaywright reads the rendered document and parses
\* it; the document is not tested against DETAIL_BLOCK_PATTERNS
FetchBrowserContent ==
    /\ fetch.state # "inflight"
    /\ \E content \in {TextPlain, TextCaptcha} :
         fetch' = [fetch EXCEPT !.caller = "browser", !.state = "returned",
                                !.handed = @ \cup {<<"parseHtmlListPage", "rendered", content>>}]
    /\ UNCHANGED <<inputVars, runVars, detail, detailAttempt>>

FetchNext == FetchSearchCall \/ FetchDetailCall \/ FetchAnswer \/ FetchBrowserContent

FetchSpec == FetchInit /\ [][FetchNext]_vars

\* ----------------------------------- the run with detail fetches followed
\* fetchDetailPage (main.js 520-528) followed attempt by attempt inside the
\* run, for the tasks of an API page and for the listings of the HTML and
\* browser loops.
DetailResponses ==
    {[status |-> 200, body |-> TextPlain], [status |-> 200, body |-> TextCaptcha],
     [status |-> 403, body |-> TextPlain], [status |-> 500, body |-> TextPlain]}

\* fetchDetailPage with its catch removed: the last error is thrown on
fetchDetailPageNoCatch(r, att) ==
    IF r.ok THEN "parsed" ELSE IF att >= maxRetries THEN "throw" ELSE "retry"

\* main.js 520-528 with 113-129: what an attempt r, the att-th retry, makes
\* of the call: the parsed detail, {} once the retries are used up, or
\* another attempt
fetchDetailPage(r, att) ==
    IF r.ok THEN "parsed" ELSE IF att >= maxRetries THEN "empty" ELSE "retry"

Attempts(k) == IF k \in DOMAIN detailAttempt THEN detailAttempt[k] ELSE 0

DetailInit ==
    /\ resultsWanted = MaxWanted /\ maxPages = MaxPagesBound
    /\ maxConcurrency = 2
    /\ maxRetries \in {0, MaxRetriesBound}
    /\ collectDetails = TRUE /\ preferJson \in BOOLEAN
    /\ useHtmlFallback = TRUE /\ usePlaywright = TRUE
    /\ target = "resolved"
    /\ InitRun

\* main.js 669-676: an attempt of a task's fetchDetailPage call answers
TaskDetailAnswer(t) ==
    /\ pc # "done"
    /\ tasks[t].phase = "detail"
    /\ \E resp \in DetailResponses :
         LET out == fetchDetailPage(fetchSearchHtmlAttempt(resp), Attempts(t)) IN
         CASE out = "retry" ->
                /\ detailAttempt' = Put(detailAttempt, t, Attempts(t) + 1)
                /\ UNCHANGED <<detail, ctlVars, apiSucceeded, sharedVars, limiterVars>>
           [] out \in {"parsed", "empty"} ->
                /\ detailAttempt' = Drop(detailAttempt, t)
                /\ detail' = Put(detail, t, out)
                /\ tasks' = [tasks EXCEPT ![t].phase = "push"]
                /\ UNCHANGED <<ctlVars, apiSucceeded, sharedVars, active, queue>>
           [] OTHER ->
                \* the call throws: the task rejects
                LET sh == Drain(next([Shared EXCEPT !.tasks[t].phase = "failed",
                                                    !.active = @ - 1], saved), saved)
                IN /\ detailAttempt' = Drop(detailAttempt, t)
                   /\ Apply(sh)
                   /\ MainAfter(sh, saved, tasks[t].page = page, FALSE)
                   /\ UNCHANGED <<detail, saved>>
    /\ UNCHANGED <<inputVars, clockVars, fetch, histVars, faultVars, loopVars, outVars>>

\* main.js 723-729, 758-764: an attempt of the fetchDetailPage call of an
\* HTML or browser listing answers
InlineDetailAnswer ==
    /\ pc \in {"htmlDetail", "pwDetail"}
    /\ \E resp \in DetailResponses :
         LET out == fetchDetailPage(fetchSearchHtmlAttempt(resp), Attempts(0)) IN
         CASE out = "retry" ->
                /\ detailAttempt' = Put(detailAttempt, 0, Attempts(0) + 1)
                /\ UNCHANGED <<detail, ctlVars, stats>>
           [] out \in {"parsed", "empty"} ->
                /\ detailAttempt' = Drop(detailAttempt, 0)
                /\ detail' = Put(detail, 0, out)
                /\ pc' = IF pc = "htmlDetail" THEN "htmlPush" ELSE "pwPush"
                /\ UNCHANGED <<page, attempt, pageReqs, summary, stats>>
           [] OTHER ->
                \* the call throws: to the page catch (739-742), or out of main
                /\ detailAttempt' = Drop(detailAttempt, 0)
                /\ IF pc = "htmlDetail"
                   THEN /\ stats' = [stats EXCEPT !.errors = @ + 1]
                        /\ Goto(HtmlLoop(page + 1, saved), saved, stats.methodsUsed)
                   ELSE /\ pc' = "crashing"
                        /\ UNCHANGED <<page, attempt, pageReqs, summary, stats>>
                /\ UNCHANGED detail
    /\ UNCHANGED <<inputVars, clockVars, fetch, histVars, faultVars, loopVars, apiSucceeded,
                   dedupVars, saved, limiterVars, outVars>>

DetailNext ==
    \/ MainSteps
    \/ \E t \in DOMAIN tasks : TaskDetailAnswer(t)
    \/ InlineDetailAnswer

DetailSpec == DetailInit /\ [][DetailNext]_vars

\* --------------------------------------------- buildProperty on its own
\* buildProperty (main.js 382-437) is a pure function: it is applied to every
\* merged field and every pair of values of the field in the two partial
\* records. The run does not start.
\* the variables of a run, and a run that does not start
mainVars == <<runInputs, ctlVars, loopVars, apiSucceeded, sharedVars, limiterVars,
              outVars, faultVars, histVars, clockVars, fetchVars>>
IdleRun ==
    /\ resultsWanted = 1 /\ maxPages = 1 /\ maxConcurrency = 2 /\ maxRetries = 0
    /\ collectDetails = TRUE /\ preferJson = FALSE
    /\ useHtmlFallback = TRUE /\ usePlaywright = FALSE
    /\ target = "resolved"
    /\ pc = "init" /\ page = 0 /\ attempt = 0
    /\ listings = <<>> /\ item = 0 /\ apiSucceeded = FALSE
    /\ seen = {} /\ saved = 0 /\ claimed = EmptyBag
    /\ lastResp = NoResp
    /\ overBudget = FALSE
    /\ stats = [apiPages |-> 0, htmlPages |-> 0, errors |-> 0, methodsUsed |-> <<>>]
    /\ active = 0 /\ queue = <<>> /\ tasks = <<>>
    /\ sink = EmptyBag /\ summary = <<>> /\ exitStatus = Running
    /\ pageReqs = {} /\ pushFailed = FALSE
    /\ fetch = NoFetch
    /\ detail = <<>> /\ detailAttempt = <<>>

BuildInit ==
    /\ IdleRun /\ derive = NoDerive /\ retry = NoRetry /\ session = NoSession /\ pool = NoPool
    /\ \E field \in MergedFields : \E l, d \in FieldValues(field) :
         merge = [field |-> field, listing |-> l, detail |-> d, out |-> Null, built |-> FALSE]

\* main.js 677, 731, 766: buildProperty({ listing, detail, source })
BuildCall ==
    /\ ~merge.built
    /\ merge' = [merge EXCEPT !.out = buildPropertyField(merge.field, merge.listing, merge.detail),
                              !.built = TRUE]
    /\ UNCHANGED <<mainVars, derive, retry, session, pool>>

BuildNext == BuildCall

BuildSpec == BuildInit /\ [][BuildNext]_vars

\* ------------------------------------------ deriveRegionMeta on its own
\* deriveRegionMeta (main.js 98-111) is a pure function: it is applied to
\* start URLs with and without a region segment and to explicit inputs that
\* are absent, empty or set.
DeriveInit ==
    /\ IdleRun /\ merge = NoMerge /\ retry = NoRetry /\ session = NoSession /\ pool = NoPool
    /\ \E url \in [given : {TRUE}, parses : {TRUE},
                    pathname : {RegionPath(x, t, d, r) : x \in Prefixes, t \in TypesWritten,
                                                       d \in DigitStrings, r \in Rests}]
                   \cup [given : {TRUE}, parses : BOOLEAN, pathname : OtherPaths]
                   \cup {NoDerive.url} :
       \E id \in {Null, Str(<<>>), Str(<<"8">>)} :
       \E type \in {Null, Num(0), Num(5)} :
         derive = [url |-> url, regionId |-> id, regionType |-> type,
                   out |-> NullMeta, called |-> FALSE]

\* main.js 634: deriveRegionMeta(targetUrl, regionId, regionType)
DeriveCall ==
    /\ ~derive.called
    /\ derive' = [derive EXCEPT !.out = deriveRegionMeta(derive.url, derive.regionId, derive.regionType),
                                !.called = TRUE]
    /\ UNCHANGED <<mainVars, merge, retry, session, pool>>

DeriveNext == DeriveCall

DeriveSpec == DeriveInit /\ [][DeriveNext]_vars

\* ------------------------------------------ requestWithRetry on its own
\* requestWithRetry (main.js 113-129) followed invocation by invocation, for
\* every maxRetries from -1 up and every sequence of outcomes of fn.
WrapperInit ==
    /\ IdleRun /\ merge = NoMerge /\ derive = NoDerive /\ session = NoSession /\ pool = NoPool
    /\ \E max \in -1..MaxWrapperRetries :
         retry = [NoRetry EXCEPT !.maxRetries = max, !.state = "looping"]

\* main.js 116-125: the loop test passes, fn(attempt + 1) is invoked and
\* returns or throws
WrapperAttempt ==
    /\ retry.state = "looping"
    /\ retry.attempt <= retry.maxRetries
    /\ \E o \in WrapperOutcomes :
         LET n == retry.attempt + 1
             err == ErrorOf(o.status, n)
         IN retry' =
              IF o.ok
              THEN [retry EXCEPT !.calls = Append(@, o), !.state = "returned",
                                 !.out = [status |-> o.status, call |-> n]]
              ELSE IF AfterFailure(retry.attempt, retry.maxRetries) = "threw"
              THEN [retry EXCEPT !.calls = Append(@, o), !.lastError = err,
                                 !.state = "threw", !.out = err]
              ELSE [retry EXCEPT !.calls = Append(@, o), !.lastError = err,
                                 !.state = "waiting", !.waits = @ + 1]
    /\ UNCHANGED <<mainVars, merge, derive, session, pool>>

\* main.js 125-127: the backoff delay ends, attempt += 1
WrapperDelayDone ==
    /\ retry.state = "waiting"
    /\ retry' = [retry EXCEPT !.attempt = @ + 1, !.state = "looping"]
    /\ UNCHANGED <<mainVars, merge, derive, session, pool>>

\* main.js 116, 128: the loop test fails, lastError is thrown
WrapperLoopExit ==
    /\ retry.state = "looping"
    /\ retry.attempt > retry.maxRetries
    /\ retry' = [retry EXCEPT !.state = "threw", !.out = retry.lastError]
    /\ UNCHANGED <<mainVars, merge, derive, session, pool>>

WrapperNext == WrapperAttempt \/ WrapperDelayDone \/ WrapperLoopExit

WrapperSpec == WrapperInit /\ [][WrapperNext]_vars

\* ---------------------------------------- fetchViaPlaywright on its own
\* fetchViaPlaywright (main.js 550-583) followed await by await, for
\* MaxBrowserCalls invocations one after the other, with every step of the
\* session free to fail and every close() free to reject.
SessionInit ==
    /\ IdleRun /\ merge = NoMerge /\ derive = NoDerive /\ retry = NoRetry /\ pool = NoPool
    /\ session = NoSession

\* main.js 550-555 with 542-543: the function is called; its locals are
\* undefined
SessionCall ==
    /\ session.step \in {"idle", "returned"}
    /\ session.call < MaxBrowserCalls
    /\ \E proxy \in BOOLEAN :
         session' = [session EXCEPT !.call = @ + 1, !.proxy = proxy,
                                    !.step = IF proxy THEN "newUrl" ELSE "launch",
                                    !.browser = 0, !.context = 0, !.page = 0,
                                    !.closed = <<>>, !.rejected = {}, !.out = "none"]
    /\ UNCHANGED <<mainVars, merge, derive, retry, pool>>

\* main.js 555-577: one awaited step of the try block resolves or rejects
SessionStep ==
    /\ session.step \in {TrySteps[i] : i \in DOMAIN TrySteps}
    /\ \E ok \in BOOLEAN :
         LET n == session.call
             done == CASE session.step = "launch" ->
                            [session EXCEPT !.browser = n, !.open = @ \cup {<<"browser", n>>}]
                       [] session.step = "newContext" ->
                            [session EXCEPT !.context = n, !.open = @ \cup {<<"context", n>>}]
                       [] session.step = "newPage" ->
                            [session EXCEPT !.page = n, !.open = @ \cup {<<"page", n>>}]
                       [] OTHER -> session
         IN session' =
              IF ~ok THEN finallyFrom([session EXCEPT !.out = "empty"], 1)
              ELSE IF session.step = "content" THEN finallyFrom([done EXCEPT !.out = "listings"], 1)
              ELSE [done EXCEPT !.step = StepAfter(session.step)]
    /\ UNCHANGED <<mainVars, merge, derive, retry, pool>>

\* main.js 579-581: a close() resolves, or rejects and is swallowed by its
\* catch; after a rejection the handle may or may not be gone
SessionClosed ==
    /\ session.step = "closing"
    /\ \E ok, gone \in BOOLEAN :
         LET kind == Handles[session.closing]
             left == IF gone
                     THEN {h \in session.open : ~(h[1] \in Within(kind) /\ h[2] = session[kind])}
                     ELSE session.open
         IN /\ ok => gone
            /\ session' = finallyFrom([session EXCEPT !.open = left,
                                                      !.rejected = IF ok THEN @ ELSE @ \cup {kind}],
                                      session.closing + 1)
    /\ UNCHANGED <<mainVars, merge, derive, retry, pool>>

SessionNext == SessionCall \/ SessionStep \/ SessionClosed

SessionSpec == SessionInit /\ [][SessionNext]_vars

\* --------------------------------------------- createLimiter on its own
\* One limiter (main.js 76-96) with 1..MaxPoolSlots slots, given up to
\* MaxPoolTasks tasks at any moments; a started task resolves or rejects.
PoolInit ==
    /\ IdleRun /\ merge = NoMerge /\ derive = NoDerive /\ retry = NoRetry
    /\ session = NoSession
    /\ \E c \in 1..MaxPoolSlots : pool = [NoPool EXCEPT !.maxConcurrency = c]

\* main.js 91-95: the limiter is called on a task
PoolSubmit ==
    /\ Len(pool.tasks) < MaxPoolTasks
    /\ LET t == Len(pool.tasks) + 1 IN
       pool' = poolNext([pool EXCEPT !.tasks = Append(@, [state |-> "queued", promise |-> Pending]),
                                     !.queue = Append(@, [task |-> t, promise |-> t])])
    /\ UNCHANGED <<mainVars, merge, derive, retry, session>>

\* main.js 84-89: the task of a started entry resolves or rejects; the
\* entry's resolve or reject is called with its result, then the finally
\* callback gives the slot back and calls next
PoolSettle(t) ==
    /\ \E e \in pool.running :
         /\ e.task = t
         /\ \E ok \in BOOLEAN :
              pool' = poolNext([pool EXCEPT !.tasks[e.task].state = "settled",
                                            !.tasks[e.promise].promise =
                                                [settled |-> TRUE, ok |-> ok, by |-> e.task],
                                            !.running = @ \ {e},
                                            !.active = @ - 1])
    /\ UNCHANGED <<mainVars, merge, derive, retry, session>>

PoolNext == PoolSubmit \/ \E t \in 1..MaxPoolTasks : PoolSettle(t)

\* every started task eventually settles
StartedSettle == \A t \in 1..MaxPoolTasks : WF_vars(PoolSettle(t))

PoolSpec == PoolInit /\ [][PoolNext]_vars /\ StartedSettle

\* ------------------------------------------------------------------ claims
SinkSize == BagCardinality(sink)
InFlight == {t \in DOMAIN tasks : tasks[t].phase \in {"detail", "push"}}
FirstPage == PageTasks(tasks, 1)
\* API page 1 returned at least resultsWanted listings, all with distinct
\* identifiers
FirstPageDistinct ==
    /\ Cardinality(FirstPage) >= resultsWanted
    /\ \A t \in FirstPage : ListingId(tasks[t].listing) # NoVal
    /\ \A t, u \in FirstPage :
         t # u => ListingId(tasks[t].listing) # ListingId(tasks[u].listing)
Rank(m) == CASE m = "apiFetch" -> 1 [] m = "htmlFetch" -> 2 [] OTHER -> 3
\* the identifier of the listing a record was built from: the record's
\* propertyId, unless that was taken from the MLS number, and then its url
KeyOf(r) == IF r.mlsNumber # NoVal /\ r.propertyId = r.mlsNumber THEN r.url ELSE r.propertyId
EmittedFor(id) ==
    BagCardinality([r \in {x \in BagToSet(sink) : KeyOf(x) = id} |-> sink[r]])

\* C1: when API page 1 returns at least resultsWanted distinct listings, the
\* run never pushes more than resultsWanted records, and a run that ends
\* without a rejected push has pushed exactly resultsWanted.
C1_ExactlyWanted ==
    FirstPageDistinct =>
        /\ SinkSize <= resultsWanted
        /\ (pc = "done" /\ ~pushFailed) => SinkSize = resultsWanted

\* C2: once saved has reached resultsWanted no search page is requested and
\* no method is started; and when API page 1 returns at least resultsWanted
\* distinct listings (and no push rejects), API page 2 is never requested
\* and methodsUsed holds json-api alone.
C2_NoRequestAfterQuota ==
    /\ [][saved' >= resultsWanted => pageReqs' = pageReqs]_vars
    /\ []((FirstPageDistinct /\ ~pushFailed) =>
            /\ pageReqs = {<<"apiFetch", 1>>}
            /\ stats.methodsUsed = <<"json-api">>)

C2_Witness ==
    /\ pc = "summary" /\ saved >= resultsWanted /\ FirstPageDistinct /\ ~pushFailed
    /\ maxPages >= 2 /\ useHtmlFallback /\ usePlaywright
    /\ pageReqs = {<<"apiFetch", 1>>}

\* C3: every identifier is claimed at most once in a run, by the tasks of
\* all pages and the listing loops of all methods together; at most one
\* listing carrying it is in flight and at most one record is emitted for it.
C3_OneClaimPerIdentifier ==
    \A id \in BagToSet(claimed) \cup {KeyOf(r) : r \in BagToSet(sink)} :
        id # NoVal =>
            /\ CopiesIn(id, claimed) = 1
            /\ EmittedFor(id) <= 1
            /\ Cardinality({t \in InFlight : ListingId(tasks[t].listing) = id}) <= 1

C3_Witness ==
    \E t, u \in DOMAIN tasks :
        /\ t < u /\ tasks[t].page = tasks[u].page
        /\ ListingId(tasks[t].listing) = ListingId(tasks[u].listing)
        /\ ListingId(tasks[t].listing) # NoVal
        /\ tasks[t].phase \in {"detail", "push"}
        /\ tasks[u].phase = "skipped"
        /\ saved < resultsWanted

\* C4: at every moment at most min(10, max(1, maxConcurrency)) tasks are in
\* flight, counted over the tasks of all pages.
C4_InFlightBounded ==
    Cardinality(InFlight) <= Min(10, Max(1, maxConcurrency))

C4_Witness ==
    /\ Cardinality(InFlight) = Min(10, Max(1, maxConcurrency))
    /\ queue # <<>>
    /\ \E t, u \in InFlight : tasks[t].page # tasks[u].page

C6_BlockingEndsMethod ==
    lastResp.kind = "blocked" =>
        /\ lastResp.method = "json-api" => pc # "apiFetch"
        /\ lastResp.method = "html" => pc # "htmlFetch"

\* C7: once the wall-clock budget is exceeded no new search page is
\* requested and no new method is started.
C7_DeadlineStopsPages == [][overBudget => pageReqs' = pageReqs]_vars

\* C8: after the API answers page 1 with an empty results array the API is
\* not called again (no retry, no page 2), no task is dispatched, and the
\* HTML method, when enabled, is requested next.
C8_EmptyFirstPage ==
    (lastResp.method = "json-api" /\ lastResp.kind = "empty" /\ lastResp.page = 1) =>
        /\ pc \notin {"apiFetch", "apiWait", "apiDelay"}
        /\ \A r \in pageReqs : r[1] = "apiFetch" => r[2] = 1
        /\ tasks = <<>> /\ stats.apiPages = 0
        /\ useHtmlFallback => <<"htmlFetch", 1>> \in pageReqs

C8_Witness ==
    /\ lastResp = [method |-> "json-api", page |-> 1, kind |-> "empty"]
    /\ pc = "htmlFetch" /\ page = 1 /\ maxRetries > 0 /\ maxPages > 1
    /\ stats.errors = 0

\* C9: an API response that parses but lacks the results array is not
\* retried, does not increment the error counter and ends the API page loop.
C9_MissingIsNoMoreData ==
    [][(lastResp' # lastResp /\ lastResp'.kind = "missing") =>
         (pc' \notin {"apiFetch", "apiWait", "apiDelay"} /\ stats'.errors = stats.errors)]_vars

\* the word captcha at position i of b, letter by letter in either case
CaptchaAt(b, i) ==
    /\ i + 6 <= Len(b)
    /\ b[i] \in {"c", "C"} /\ b[i + 1] \in {"a", "A"} /\ b[i + 2] \in {"p", "P"}
    /\ b[i + 3] \in {"t", "T"} /\ b[i + 4] \in {"c", "C"} /\ b[i + 5] \in {"h", "H"}
    /\ b[i + 6] \in {"a", "A"}
HasCaptcha(b) == \E i \in DOMAIN b : CaptchaAt(b, i)

RunEnded == pc = "done"
Escaped == exitStatus.error # ""

C12_SummaryCountsSink ==
    /\ Len(summary) <= 1
    /\ (RunEnded /\ saved > 0 /\ ~Escaped) => Len(summary) = 1
    /\ summary # <<>> => pc \in {"summary", "done"}
    /\ (RunEnded /\ summary # <<>>) => summary[1].propertiesSaved = SinkSize

\* the same for runs in which no sink push rejects
C12_WithoutRejectedPush == ~pushFailed => C12_SummaryCountsSink

\* the listing and the method of the fetchDetailPage call kept under key k
DetailListing(k) == IF k = 0 THEN listings[item] ELSE tasks[k].listing
DetailSource(k) ==
    IF k # 0 THEN "json-api" ELSE IF pc \in {"htmlDetail", "htmlPush"} THEN "html" ELSE "playwright"
InlinePcs == {"htmlDetail", "htmlPush", "pwDetail", "pwPush"}
LaterListing(s) ==
    /\ s < resultsWanted
    /\ \E j \in (item + 1)..Len(listings) :
         ListingId(listings[j]) = NoVal \/ ListingId(listings[j]) \notin seen

\* a fetchDetailPage call returns: its listing goes on to its push and nothing
\* else of the run moves
DetailReturns(k) ==
    /\ IF k = 0
       THEN /\ pc' = (IF pc = "htmlDetail" THEN "htmlPush" ELSE "pwPush")
            /\ item' = item /\ listings' = listings
       ELSE /\ pc' = pc
            /\ tasks' = [tasks EXCEPT ![k].phase = "push"]
            /\ queue' = queue /\ active' = active
    /\ stats' = stats /\ page' = page /\ pageReqs' = pageReqs
    /\ saved' = saved /\ sink' = sink /\ exitStatus' = exitStatus

\* the push of a listing whose detail is {} ends: the record is the one built
\* from the listing alone, no error is counted, and the listing loop goes on
\* to the next listing of the page
EmptyDetailPushed(k) ==
    \/ pushFailed' /\ ~pushFailed
    \/ /\ saved' = saved + 1
       /\ sink' = sink (+) SetToBag({buildProperty(DetailListing(k), "empty", DetailSource(k))})
       /\ stats'.errors = stats.errors
       /\ k # 0 => \A t \in DOMAIN tasks \ {k} :
                      /\ tasks'[t].phase = "failed" => tasks[t].phase = "failed"
                      /\ tasks'[t].listing = tasks[t].listing
       /\ (k = 0 /\ LaterListing(saved + 1)) => (pc' \in InlinePcs /\ item' > item)

\* C13: a detail fetch that failed for good (retries used up, or a blocked
\* detail page) does not abort its page: the call returns {} and the listing
\* goes on to its push, its record is built from the summary alone and
\* pushed, no task rejects for it and the page's other listings go on.
C13_DetailFailureStaysLocal ==
    [][ /\ \A k \in DOMAIN detail' \ DOMAIN detail : DetailReturns(k)
        /\ \A k \in DOMAIN detail \ DOMAIN detail' :
             detail[k] = "empty" => EmptyDetailPushed(k)
        /\ \A t \in DOMAIN tasks : tasks[t].phase = "detail" => tasks'[t].phase \in {"detail", "push"}
        /\ pc \in {"htmlDetail", "pwDetail"} => pc' \in {pc, "htmlPush", "pwPush"}
      ]_vars

\* a record without description, i.e. built from the summary alone though
\* its listing has a url and details are collected, is in the sink, and a
\* later listing of the same page is at its own detail fetch
C13_Witness ==
    /\ collectDetails
    /\ \E r \in BagToSet(sink) : r.url # NoVal /\ r.description = NoVal /\ r.source = "html"
    /\ pc = "htmlDetail" /\ item > 1 /\ page = 1
    /\ stats.errors = 0 /\ ~pushFailed

\* a step on which a page catch (main.js 690-695, 739-742) handles the last
\* error of the page request, and whether that error is a blocking one
PageFailure == pc \in {"apiFetch", "htmlFetch"} /\ stats'.errors = stats.errors + 1
BlockingFailure == PageFailure /\ lastResp'.kind = "blocked"
NextPageRequested ==
    /\ pc' = pc /\ page' = page + 1 /\ attempt' = 0
    /\ <<pc, page + 1>> \in pageReqs'

\* C14 as stated: whatever the failure, the page catch does not end the
\* method and page k+1 of the same method is requested next when k < maxPages
\* and the quota is unmet.
C14_AnyPageFailureGoesOn ==
    [][ (PageFailure /\ page < maxPages /\ saved < resultsWanted) => NextPageRequested ]_vars

\* C14, amended: a page failure that is not a blocking one (retries used up on
\* a non-blocking status or on a body without the results array) does not end
\* the method: page k+1 of the same method is requested next when
\* k < maxPages and the quota is unmet.
C14_TransientPageFailureGoesOn ==
    [][ (PageFailure /\ ~BlockingFailure /\ page < maxPages /\ saved < resultsWanted)
            => NextPageRequested ]_vars

\* both methods have gone from a failed page 1 to page 2
C14_Witness ==
    /\ pc = "htmlFetch" /\ page = 2 /\ stats.errors = 2
    /\ stats.apiPages = 0 /\ stats.htmlPages = 0 /\ ~pushFailed
    /\ {<<"apiFetch", 1>>, <<"apiFetch", 2>>, <<"htmlFetch", 1>>} \subseteq pageReqs
    /\ lastResp.kind # "blocked"

\* C15: whatever the fetches answer and whatever maxRetries is, no exception
\* leaves main's try once a start URL is given, and a run is reported failed
\* only with zero records saved or no region resolved. A rejected sink push
\* is not a fetch outcome and is left aside.
C15_NoFetchOutcomeAborts ==
    ~pushFailed =>
        /\ (pc = "crashing" \/ Escaped) => target = "none"
        /\ (RunEnded /\ exitStatus.status \in {"failed", "crashed"}) =>
              (saved = 0 \/ target # "resolved")

\* C16: when no region can be resolved (no startUrl, or a URL without a
\* region segment and no regionId) no fetch of any method is issued, and the
\* run ends with a failed status and a non-empty message.
C16_UnresolvedFailsWithMessage ==
    target # "resolved" =>
        /\ pageReqs = {}
        /\ RunEnded => /\ exitStatus.status \in {"failed", "crashed"}
                       /\ exitStatus.message # ""

\* the half of C16 that holds: a start URL without a region ends the run
\* through Actor.fail, with no fetch issued
C16_UnresolvedUrlFails ==
    target = "unresolved" =>
        /\ pageReqs = {}
        /\ RunEnded => exitStatus = Failed(errorMsg)

\* the methods that are enabled have all had their first request
MethodsExhausted ==
    /\ preferJson => <<"apiFetch", 1>> \in pageReqs
    /\ useHtmlFallback => <<"htmlFetch", 1>> \in pageReqs
    /\ usePlaywright => <<"pwFetch", 1>> \in pageReqs

MethodRank(m) == CASE m = "json-api" -> 1 [] m = "html" -> 2 [] OTHER -> 3
InCascadeOrder(ms) ==
    \A i, j \in DOMAIN ms : i < j => MethodRank(ms[i]) < MethodRank(ms[j])
Lists(ms, m) == \E i \in DOMAIN ms : ms[i] = m

\* a method has had a page with at least one listing: the API page made
\* tasks of its homes, an HTML page was counted, the browser's listings are
\* the ones in hand
Yielded(m) ==
    CASE m = "json-api" -> tasks # <<>>
      [] m = "html" -> stats.htmlPages > 0
      [] OTHER -> /\ <<"pwFetch", 1>> \in pageReqs /\ pc # "pwFetch"
                  /\ listings # <<>>

\* C18: the methodsUsed list holds a method if and only if that method
\* yielded at least one listing on some page, in the order json-api, html,
\* playwright; the summary written at run end reports that list.
C18_MethodsUsedAreThoseThatYielded ==
    /\ InCascadeOrder(stats.methodsUsed)
    /\ \A m \in {"json-api", "html", "playwright"} :
          Lists(stats.methodsUsed, m) <=> Yielded(m)
    /\ \A r \in BagToSet(sink) : Lists(stats.methodsUsed, r.source)
    /\ summary # <<>> => summary[1].methodsUsed = stats.methodsUsed

\* a run has ended whose summary lists the API and the browser but not the
\* HTML method, which was tried and yielded nothing
C18_Witness ==
    /\ RunEnded /\ summary # <<>>
    /\ summary[1].methodsUsed = <<"json-api", "playwright">>
    /\ <<"htmlFetch", 1>> \in pageReqs

\* C19: for every merged field and every pair of summary and detail values
\* of it, a non-null detail value wins over a non-null summary value, and a
\* null detail value leaves a non-null summary value in place.
C19_DetailWins ==
    merge.built =>
        /\ (merge.detail # Null /\ merge.listing # Null) =>
              merge.out = Shown(merge.field, merge.detail)
        /\ (merge.detail = Null /\ merge.listing # Null) =>
              merge.out = Shown(merge.field, merge.listing)

\* the part of C19 that holds: a null detail value never replaces the
\* summary value, and a detail value that JavaScript takes for true wins on
\* every field but propertyType and url
C19_TruthyDetailWins ==
    merge.built =>
        /\ (Truthy(merge.detail) /\ merge.field \notin {"propertyType", "url"}) =>
              merge.out = Shown(merge.field, merge.detail)
        /\ merge.detail = Null => merge.out = Shown(merge.field, merge.listing)

\* C20: every record pushed to the sink, by whichever method, has a
\* populated propertyId.
C20_PropertyIdPopulated == \A r \in BagToSet(sink) : r.propertyId # NoVal

\* the identifiers the sample listings carry
NativeIds == {"p1", "p2", "p3"}

\* the part of C20 that holds: a record's propertyId is the listing's own
\* identifier or else the record's url, and it is empty only when the url is
C20_UrlWhenNoNativeId ==
    \A r \in BagToSet(sink) :
        /\ r.propertyId \in NativeIds \/ r.propertyId = r.url
        /\ r.propertyId = NoVal => r.url = NoVal

\* C21: for a start URL whose path holds a /<type>/<digits>/ segment, the
\* region identifier is the digit string and the region type the code of the
\* type, unless an explicit regionId or regionType is given, which then
\* replaces the URL-derived value.
C21_RegionFromUrlOrExplicit ==
    \A x \in Prefixes, t \in TypesWritten, d \in DigitStrings, r \in Rests :
        (derive.called /\ derive.url.pathname = RegionPath(x, t, d, r)) =>
            /\ ~derive.out.isNull
            /\ derive.out.regionId =
                  (IF Truthy(derive.regionId) THEN derive.regionId ELSE Str(d))
            /\ derive.out.regionType =
                  (IF Truthy(derive.regionType) THEN derive.regionType
                   ELSE Num(REGION_TYPE_MAP(LowerOf(t))))

\* .../city/29470/IL/Chicago without explicit inputs has given "29470" and
\* the code of city
C21_Witness ==
    /\ derive.called
    /\ derive.url.pathname = <<"/", "c", "i", "t", "y", "/", "2", "9", "4", "7", "0", "/", "I", "L", "/", "C", "h", "i", "c", "a", "g", "o">>
    /\ derive.regionId = Null /\ derive.regionType = Null
    /\ derive.out.regionId = Str(<<"2", "9", "4", "7", "0">>) /\ derive.out.regionType = Num(6)

Failures(calls) == {i \in DOMAIN calls : ~calls[i].ok}

\* C22: for maxRetries >= 0 the wrapper invokes the operation at most
\* maxRetries + 1 times and stops at the first success; after maxRetries + 1
\* failures in a row it throws the error of the last attempt, with no backoff
\* delay after that attempt; a blocking failure uses the budget like any other.
C22_RetryBudget ==
    retry.maxRetries >= 0 =>
        LET n == Len(retry.calls) IN
        /\ n <= retry.maxRetries + 1
        /\ \A i \in 1..(n - 1) : ~retry.calls[i].ok
        /\ retry.state = "returned" <=> (n > 0 /\ retry.calls[n].ok)
        /\ retry.state = "returned" => retry.out = [status |-> 200, call |-> n]
        /\ retry.state = "threw" =>
              /\ n = retry.maxRetries + 1
              /\ Failures(retry.calls) = 1..n
              /\ retry.out = ErrorOf(retry.calls[n].status, n)
              /\ retry.waits = retry.maxRetries
        /\ retry.waits = Cardinality(Failures(retry.calls)) - (IF retry.state = "threw" THEN 1 ELSE 0)
        /\ (retry.state = "looping" /\ n <= retry.maxRetries) => ENABLED WrapperAttempt

\* the budget was used up on failures of which the first was a blocking one
\* and the last was not
C22_Witness ==
    /\ retry.maxRetries = MaxWrapperRetries /\ retry.state = "threw"
    /\ retry.calls[1].status \in BLOCK_STATUS
    /\ retry.out = ErrorOf(500, MaxWrapperRetries + 1)

Queued == {t \in DOMAIN tasks : tasks[t].phase = "queued"}

\* C23: tasks are numbered in submission order. No task is started while a
\* task submitted before it is still queued, and the queue holds the queued
\* tasks in submission order; completions are free to happen in any order.
C23_FifoAdmission ==
    /\ \A u \in Queued : \A t \in DOMAIN tasks : t > u => t \in Queued
    /\ {queue[i] : i \in DOMAIN queue} = Queued
    /\ \A i, j \in DOMAIN queue : i < j => queue[i] < queue[j]

\* with two slots, the second task has completed before the first, and the
\* third, which had to queue, was started after them
C23_Witness ==
    /\ Limit = 2 /\ Len(tasks) >= 3
    /\ tasks[1].page = tasks[3].page
    /\ tasks[1].phase \in {"detail", "push"}
    /\ tasks[2].phase = "done"
    /\ tasks[3].phase \in {"detail", "push"}

\* page p of method m is the next page of m: above every page of m requested
\* so far, and 1 or the successor of a requested page
NextPageOf(m, p) ==
    /\ \A q \in pageReqs : q[1] = m => q[2] < p
    /\ p = 1 \/ <<m, p - 1>> \in pageReqs

\* when page p of method m is requested, no listing of page p - 1 is left
\* undispatched. The API loop hands all listings of a page to the limiter in
\* the step that receives the page (homes.map, main.js 659); the HTML loop
\* takes them one at a time and is at listing item while it awaits that
\* listing's push
PageDispatched(m, p) == (m = "htmlFetch" /\ p > 1 /\ pc = "htmlPush") => item = Len(listings)

\* C24: within one method the pages are requested in strictly increasing
\* order from page 1, and page N+1 is not requested before every listing of
\* page N has been dispatched.
C24_PagesInOrder ==
    [][\A r \in pageReqs' \ pageReqs : NextPageOf(r[1], r[2]) /\ PageDispatched(r[1], r[2])]_vars

\* the page order alone
C24_PagesIncrease == [][\A r \in pageReqs' \ pageReqs : NextPageOf(r[1], r[2])]_vars

\* the whole statement in runs where no sink push rejects
C24_WithoutRejectedPush ==
    [][\A r \in pageReqs' \ pageReqs : NextPageOf(r[1], r[2]) /\ (~pushFailed' => PageDispatched(r[1], r[2]))]_vars

\* the handles the current invocation has opened, in the order of Handles
Opened == SelectSeq(Handles, LAMBDA k : session[k] # 0)

\* C25: when an invocation of the browser fetch returns, on success or after
\* any step of the session failed, it has called close() on every page,
\* context and browser it opened, and none of them is left open (unless the
\* browser's own close() rejected); every handle it works with was opened by
\* this invocation, never by an earlier one.
C25_SessionTornDown ==
    /\ \A k \in {"page", "context", "browser"} : session[k] \in {0, session.call}
    /\ \A h \in session.open : h[2] = session.call => session[h[1]] = session.call
    /\ session.step = "returned" =>
          /\ session.closed = Opened
          /\ "browser" \notin session.rejected =>
                \A h \in session.open : h[2] # session.call
          /\ session.out = "listings" => Opened = Handles

\* the second invocation has returned empty-handed after its navigation
\* failed: it had opened its own browser, context and page, and all are closed
C25_Witness ==
    /\ session.call = MaxBrowserCalls /\ session.step = "returned"
    /\ session.out = "empty"
    /\ session.closed = Handles
    /\ session.open = {}

\* C26: at every point of a run the sink holds at most resultsWanted + C - 1
\* records, C being the effective concurrency limit; with C = 1 it never
\* holds more than resultsWanted.
C26_SinkWithinQuotaPlusPool == SinkSize <= resultsWanted + Limit - 1

\* the same for runs in which no sink push rejects
C26_WithoutRejectedPush == ~pushFailed => C26_SinkWithinQuotaPlusPool

\* C27: no two records pushed to the sink in one run carry the same
\* propertyId, whichever of the listing's propertyId, MLS number or URL the
\* emitted propertyId was taken from.
C27_PropertyIdsDistinct ==
    \A r1, r2 \in BagToSet(sink) :
        r1.propertyId = r2.propertyId => (r1 = r2 /\ CopiesIn(r1, sink) = 1)

\* what holds: two records with the same non-empty propertyId differ in
\* their url, that is, they come from listings with different dedup keys
C27_OwnPropertyIdsDistinct ==
    \A r1, r2 \in BagToSet(sink) :
        (r1.propertyId = r2.propertyId /\ r1.propertyId # NoVal /\ r1.url = r2.url) =>
            (r1 = r2 /\ CopiesIn(r1, sink) = 1)

\* task t is started by this step (it was queued, or is submitted and started
\* in the same step)
Admitted(t) ==
    /\ t \notin DOMAIN tasks \/ tasks[t].phase = "queued"
    /\ tasks'[t].phase # "queued"

\* C28: a task the limiter starts when the saved count has reached
\* resultsWanted returns at once: the dedup set is left as it was, no detail
\* fetch is started for it and it never pushes a record.
C28_LateTaskDoesNothing ==
    [][\A t \in DOMAIN tasks' :
        /\ (Admitted(t) /\ saved' >= resultsWanted) =>
              /\ tasks'[t].phase = "skipped"
              /\ seen' = seen /\ claimed' = claimed
        /\ (t \in DOMAIN tasks /\ tasks[t].phase = "skipped") =>
              /\ tasks'[t].phase = "skipped"
              /\ t \notin DOMAIN detail']_vars

\* a task was started after the quota was reached and returned; its listing's
\* identifier is not in the dedup set
C28_Witness ==
    /\ saved >= resultsWanted
    /\ \E t \in DOMAIN tasks :
         /\ tasks[t].phase = "skipped"
         /\ ListingId(tasks[t].listing) # NoVal
         /\ ListingId(tasks[t].listing) \notin seen

\* the tasks that have been started and have not settled
Started == {t \in DOMAIN tasks : tasks[t].phase \in {"detail", "push"}}

\* C29: the active count of the limiter stays within 0..C; it is the number
\* of started tasks that have not settled, so every settled task, resolved or
\* rejected, has given its slot back exactly once; when every submitted task
\* has settled the active count is 0 and the queue is empty.
C29_ActiveCountsRunningTasks ==
    /\ active \in 0..Limit
    /\ active = Cardinality(Started)
    /\ (\A t \in DOMAIN tasks : Settled(tasks[t].phase)) => (active = 0 /\ queue = <<>>)

\* more tasks than slots were submitted, one of them rejected, all have
\* settled, and the limiter is idle
C29_Witness ==
    /\ Len(tasks) > Limit
    /\ \A t \in DOMAIN tasks : Settled(tasks[t].phase)
    /\ \E t \in DOMAIN tasks : tasks[t].phase = "failed"
    /\ \E t \in DOMAIN tasks : tasks[t].phase = "done"
    /\ active = 0 /\ queue = <<>>

Submitted(t) == t \in DOMAIN pool.tasks

\* C30: provided every started task settles, every task submitted to the
\* limiter is eventually started, and the promise returned for it settles,
\* with the result or the error of that very task.
C30_SubmittedTaskSettles ==
    /\ \A t \in 1..MaxPoolTasks :
         /\ Submitted(t) ~> (Submitted(t) /\ pool.tasks[t].state \in {"running", "settled"})
         /\ Submitted(t) ~> (Submitted(t) /\ pool.tasks[t].promise.settled)
    /\ [](\A t \in DOMAIN pool.tasks :
             /\ pool.tasks[t].promise.settled => pool.tasks[t].promise.by = t
             /\ pool.tasks[t].promise.settled <=> pool.tasks[t].state = "settled")

\* more tasks than slots were submitted; the last one had to queue, was
\* started and its promise rejected with its own error
C30_Witness ==
    /\ Len(pool.tasks) = MaxPoolTasks /\ pool.maxConcurrency < MaxPoolTasks
    /\ pool.tasks[MaxPoolTasks].promise = [settled |-> TRUE, ok |-> FALSE, by |-> MaxPoolTasks]
    /\ pool.tasks[1].promise.ok
    /\ pool.active = 0

\* the request r opens API page N+1 or starts the HTML method
AfterApiPage(r) == (r[1] = "apiFetch" /\ r[2] > 1) \/ r = <<"htmlFetch", 1>>

\* every task submitted for an API page before the one r asks for has
\* settled once the request is made
EarlierTasksSettled(r) ==
    \A t \in DOMAIN tasks' :
        (r[1] = "htmlFetch" \/ tasks'[t].page < r[2]) => Settled(tasks'[t].phase)

\* C31: when API page N+1 is requested, or the HTML method is started, every
\* task submitted for the earlier API pages has settled: none of their detail
\* fetches or sink pushes is still in flight, also when one task of the page
\* failed on its push.
C31_NoTaskOutlivesItsPage ==
    [][\A r \in pageReqs' \ pageReqs : AfterApiPage(r) => EarlierTasksSettled(r)]_vars

\* the same for runs in which no sink push rejects
C31_WithoutRejectedPush ==
    [][\A r \in pageReqs' \ pageReqs :
          (AfterApiPage(r) /\ ~pushFailed') => EarlierTasksSettled(r)]_vars


============================================================================
